---- MODULE Spec2Model ----
(***************************************************************************)
(* Model of ml/export_logs.py: one linear procedure that creates the       *)
(* output directory, loads an environment file, builds an optional         *)
(* recency filter and exports six tables to csv and/or parquet files.      *)
(*                                                                         *)
(* Optional values (Python None, the empty string) are sequences of       *)
(* length 0 or 1.  A datetime is [day, sec, usec] with day the proleptic   *)
(* Gregorian ordinal.  A file name is the pair <<base_name, ext>>.         *)
(*                                                                         *)
(* The exceptions modelled are the ones the script's control flow depends  *)
(* on: the RuntimeError of make_engine_from_env, the OverflowError of the  *)
(* cutoff arithmetic, an error of pd.read_sql, and a raising to_parquet.   *)
(* mkdir and to_csv are taken to succeed.                                  *)
(***************************************************************************)
EXTENDS Integers, Sequences, FiniteSets, TLC

\* ---------------------------------------------------------------- bounds
\* Rows held by the database, all tables together.
MaxTotalRows == 1
\* to_parquet calls that raise although a parquet engine is installed, per
\* behaviour.  Without an engine every call raises.
MaxPqFail == 1

\* ------------------------------------------------------ program constants
ENV_PATHS == <<"backend/.env", ".env", "../backend/.env">>

\* datetime.min / datetime.max ordinals and timedelta's day range.
MinOrdinal == 1
MaxOrdinal == 3652059
MaxDeltaDays == 999999999

\* The six export_table calls of main(), in call order.
TABLES ==
    << [base_name |-> "users", select |-> "id, email, role, created_at", logs |-> FALSE],
       [base_name |-> "user_profiles", select |-> "id, user_id, role, skill_level, career_path", logs |-> FALSE],
       [base_name |-> "search_logs", select |-> "id, user_id, query, created_at", logs |-> TRUE],
       [base_name |-> "click_logs", select |-> "id, user_id, course_id, event, created_at", logs |-> TRUE],
       [base_name |-> "completed_courses", select |-> "id, user_id, course_id, completed_at", logs |-> TRUE],
       [base_name |-> "in_progress", select |-> "id, user_id, course_id, started_at, last_seen_at", logs |-> TRUE] >>

NTables == Len(TABLES)
TableNames == {TABLES[i].base_name : i \in 1..NTables}
LogTables == {TABLES[i].base_name : i \in {j \in 1..NTables : TABLES[j].logs}}
Exts == {"csv", "parquet"}
FileNames == TableNames \X Exts

\* ------------------------------------------------------------ input sets
DT(d, s, u) == [day |-> d, sec |-> s, usec |-> u]

\* The wall clock (UTC) when the script is first started:
\* 2026-11-02 12:00:00.500000.
StartTimes == {DT(739922, 43200, 500000)}
\* created_at values of the rows held by the database (whole seconds):
\* 2026-11-01 12:00:00 and 2026-11-02 12:00:00.
RowTimes == {DT(739921, 43200, 0), DT(739922, 43200, 0)}
\* --since-days: None or an int.
SinceDaysValues == {<<>>, <<-1>>, <<0>>, <<1>>, <<1000000>>}
\* --formats: nargs="+" over the choices csv, parquet.
FormatSets == SUBSET Exts \ {{}}

RowSeqs == UNION {[1..n -> RowTimes] : n \in 0..MaxTotalRows}
MkRows(ts) == [i \in 1..Len(ts) |-> [id |-> i, created_at |-> ts[i]]]

RECURSIVE TotalRows(_, _)
TotalRows(d, i) ==
    IF i > NTables THEN 0 ELSE Len(d[TABLES[i].base_name]) + TotalRows(d, i + 1)

Databases ==
    {d \in [TableNames -> {MkRows(ts) : ts \in RowSeqs}] : TotalRows(d, 1) <= MaxTotalRows}

\* ----------------------------------------------------------------- state
VARIABLES
    envExists,   \* which of the candidate .env paths exist
    db,          \* table -> sequence of rows
    formats,     \* args.formats, lower-cased
    since_days,  \* args.since_days
    pyarrow,     \* whether a parquet engine can be imported
    dirExists,   \* out_dir exists
    files,       \* file name -> content on disk
    pc, k,       \* position in main(); index of the export_table call
    dotenv,      \* files handed to load_dotenv, in order
    env,         \* find_and_load_env()'s return value
    cutoff,      \* main's cutoff, when computed
    time_filter, \* main's time_filter
    queries,     \* SQL handed to pd.read_sql, in order
    df,          \* export_table's df
    out_files,   \* export_table's out_files
    written,     \* files written by this run, in order
    out,         \* lines printed by this run
    error,       \* the uncaught exception, if any
    pq_raised,   \* to_parquet calls that raised with the engine present
    clock,       \* the wall clock (UTC) of the current invocation
    rerun,       \* whether this invocation is a re-run
    prev         \* disk and output at the end of the previous invocation

vars == <<envExists, db, formats, since_days, pyarrow, dirExists, files, pc, k,
          dotenv, env, cutoff, time_filter, queries, df, out_files, written,
          out, error, pq_raised, clock, rerun, prev>>

inputs == <<envExists, db, formats, since_days, pyarrow>>
locals == <<dotenv, env, cutoff, time_filter, queries, df, out_files>>

Absent == [kind |-> "absent"]
NoPath == "None"

\* ------------------------------------------------------------- datetimes
Ge(a, b) ==
    \/ a.day > b.day
    \/ a.day = b.day /\ a.sec > b.sec
    \/ a.day = b.day /\ a.sec = b.sec /\ a.usec >= b.usec

\* timedelta(days=D) raises outside its day range; the subtraction raises
\* when the result leaves datetime.min..datetime.max.
Overflows(now, days) ==
    \/ days > MaxDeltaDays
    \/ days < -MaxDeltaDays
    \/ now.day - days < MinOrdinal
    \/ now.day - days > MaxOrdinal

\* datetime.utcnow(): the wall clock, read once per run.
utcnow(c) == c

MinusDays(now, days) == DT(now.day - days, now.sec, now.usec)

\* strftime("%Y-%m-%d %H:%M:%S"): the microseconds are dropped.
strftime(d) == [day |-> d.day, sec |-> d.sec]

\* The literal as the database reads it back: a whole-second datetime.
Literal(s) == DT(s.day, s.sec, 0)

TimeFilter(cutoff_str) == <<[col |-> "created_at", op |-> ">=", lit |-> cutoff_str]>>

\* ------------------------------------------------------ find_and_load_env
RECURSIVE FindFrom(_, _)
FindFrom(i, exists) ==
    IF i > Len(ENV_PATHS) THEN [ret |-> NoPath, loaded |-> <<>>]
    ELSE IF ENV_PATHS[i] \in exists
         THEN [ret |-> ENV_PATHS[i], loaded |-> <<ENV_PATHS[i]>>]
         ELSE FindFrom(i + 1, exists)

\* Variant: every existing candidate is loaded and the last one is returned.
RECURSIVE LoadAllFrom(_, _, _)
LoadAllFrom(i, exists, acc) ==
    IF i > Len(ENV_PATHS) THEN acc
    ELSE IF ENV_PATHS[i] \in exists
         THEN LoadAllFrom(i + 1, exists,
                          [ret |-> ENV_PATHS[i], loaded |-> Append(acc.loaded, ENV_PATHS[i])])
         ELSE LoadAllFrom(i + 1, exists, acc)

find_and_load_env_last_wins(exists) ==
    LoadAllFrom(1, exists, [ret |-> NoPath, loaded |-> <<>>])

find_and_load_env(exists) == FindFrom(1, exists)

\* ------------------------------------------------------------------ SQL
\* Variant: the time filter is appended to every query.
SqlFor_filter_all(i, sd, tf) ==
    [select |-> TABLES[i].select,
     from |-> TABLES[i].base_name,
     tail |-> IF sd # <<>> THEN tf ELSE <<>>]

\* Variant: the time filter is left off the last log query.
SqlFor_unfiltered_last(i, sd, tf) ==
    [select |-> TABLES[i].select,
     from |-> TABLES[i].base_name,
     tail |-> IF TABLES[i].logs /\ i < NTables /\ sd # <<>> THEN tf ELSE <<>>]

\* The SQL text main() builds for its i-th export_table call.
SqlFor(i, sd, tf) ==
    [select |-> TABLES[i].select,
     from |-> TABLES[i].base_name,
     tail |-> IF TABLES[i].logs /\ sd # <<>> THEN tf ELSE <<>>]

Matches(row, tail) == tail = <<>> \/ Ge(row.created_at, Literal(tail[1].lit))

\* pd.read_sql: the rows of the table that satisfy the WHERE clause.
read_sql(sql, d) == SelectSeq(d[sql.from], LAMBDA r : Matches(r, sql.tail))

\* Variant: to_csv(header=False).
to_csv_no_header(sql, frame) == [kind |-> "csv", lines |-> frame]

\* df.to_csv(index=False): a header line, then one line per row.
to_csv(sql, frame) == [kind |-> "csv", lines |-> <<[header |-> sql.select]>> \o frame]
to_parquet(sql, frame) == [kind |-> "parquet", columns |-> sql.select, rows |-> frame]

\* ----------------------------------------------------------------- Init
Init ==
    /\ envExists \in SUBSET {ENV_PATHS[i] : i \in 1..Len(ENV_PATHS)}
    /\ db \in Databases
    /\ formats \in FormatSets
    /\ since_days \in SinceDaysValues
    /\ pyarrow \in BOOLEAN
    /\ dirExists \in BOOLEAN
    /\ files = [f \in FileNames |-> Absent]
    /\ pc = "mkdir"
    /\ k = 1
    /\ dotenv = <<>>
    /\ env = NoPath
    /\ cutoff = <<>>
    /\ time_filter = <<>>
    /\ queries = <<>>
    /\ df = <<>>
    /\ out_files = <<>>
    /\ written = <<>>
    /\ out = <<>>
    /\ error = "none"
    /\ pq_raised = 0
    /\ clock \in StartTimes
    /\ rerun = FALSE
    /\ prev = <<>>

\* -------------------------------------------------------------- actions
Crash(e) == pc' = "crashed" /\ error' = e

\* Variant: the directory is not created.
main_mkdir_skipped ==
    /\ pc = "mkdir"
    /\ pc' = "engine"
    /\ UNCHANGED <<inputs, dirExists, files, k, locals, written, out, error, pq_raised,
                   clock, rerun, prev>>

\* main, lines 82-84.
main_mkdir ==
    /\ pc = "mkdir"
    /\ dirExists' = TRUE
    /\ pc' = "engine"
    /\ UNCHANGED <<inputs, files, k, locals, written, out, error, pq_raised, clock, rerun, prev>>

\* Variant: a missing environment file is not checked for.
make_engine_from_env_unchecked ==
    /\ pc = "engine"
    /\ LET r == find_and_load_env(envExists) IN
        /\ dotenv' = dotenv \o r.loaded
        /\ env' = r.ret
    /\ pc' = "filter"
    /\ UNCHANGED <<inputs, dirExists, files, k, cutoff, time_filter, queries, df,
                   out_files, written, out, error, pq_raised, clock, rerun, prev>>

\* main line 86: make_engine_from_env, lines 43-54.
make_engine_from_env ==
    /\ pc = "engine"
    /\ LET r == find_and_load_env(envExists) IN
        /\ dotenv' = dotenv \o r.loaded
        /\ env' = r.ret
        /\ IF r.ret = NoPath
           THEN Crash("RuntimeError")
           ELSE pc' = "filter" /\ UNCHANGED error
    /\ UNCHANGED <<inputs, dirExists, files, k, cutoff, time_filter, queries, df,
                   out_files, written, out, pq_raised, clock, rerun, prev>>

\* main, lines 89-93.
main_time_filter ==
    /\ pc = "filter"
    /\ IF since_days = <<>>
       THEN /\ pc' = "read"
            /\ UNCHANGED <<cutoff, time_filter, error>>
       ELSE LET now == utcnow(clock) IN
            IF Overflows(now, since_days[1])
            THEN /\ Crash("OverflowError")
                 /\ UNCHANGED <<cutoff, time_filter>>
            ELSE /\ cutoff' = <<MinusDays(now, since_days[1])>>
                 /\ time_filter' = TimeFilter(strftime(MinusDays(now, since_days[1])))
                 /\ pc' = "read"
                 /\ UNCHANGED error
    /\ UNCHANGED <<inputs, dirExists, files, k, dotenv, env, queries, df, out_files,
                   written, out, pq_raised, clock, rerun, prev>>

Exporting(i) == [line |-> "Exporting", base_name |-> TABLES[i].base_name]

\* export_table lines 58-60, the query answered.
export_table_read ==
    /\ pc = "read"
    /\ LET sql == SqlFor(k, since_days, time_filter) IN
        /\ queries' = Append(queries, sql)
        /\ df' = read_sql(sql, db)
    /\ out' = Append(out, Exporting(k))
    /\ out_files' = <<>>
    /\ pc' = "csv"
    /\ UNCHANGED <<inputs, dirExists, files, k, dotenv, env, cutoff, time_filter,
                   written, error, pq_raised, clock, rerun, prev>>

\* Variant: main() logs the failure and goes on to the next table.
export_table_read_fails_skipped ==
    /\ pc = "read"
    /\ queries' = Append(queries, SqlFor(k, since_days, time_filter))
    /\ out' = Append(out, Exporting(k))
    /\ error' = "DatabaseError"
    /\ IF k < NTables
       THEN k' = k + 1 /\ pc' = "read"
       ELSE k' = k /\ pc' = "complete"
    /\ UNCHANGED <<inputs, dirExists, files, dotenv, env, cutoff, time_filter, df,
                   out_files, written, pq_raised, clock, rerun, prev>>

\* export_table lines 58-59, the connection or the query failing.
export_table_read_fails ==
    /\ pc = "read"
    /\ queries' = Append(queries, SqlFor(k, since_days, time_filter))
    /\ out' = Append(out, Exporting(k))
    /\ Crash("DatabaseError")
    /\ UNCHANGED <<inputs, dirExists, files, k, dotenv, env, cutoff, time_filter, df,
                   out_files, written, pq_raised, clock, rerun, prev>>

\* Variant: the csv file is opened for appending.
export_table_csv_appends ==
    /\ pc = "csv"
    /\ IF "csv" \in formats
       THEN LET csv_path == <<TABLES[k].base_name, "csv">>
                old == IF files[csv_path] = Absent THEN <<>> ELSE files[csv_path].lines
                new == to_csv(queries[Len(queries)], df) IN
            /\ files' = [files EXCEPT ![csv_path] = [new EXCEPT !.lines = old \o new.lines]]
            /\ written' = Append(written, csv_path)
            /\ out_files' = Append(out_files, csv_path)
       ELSE UNCHANGED <<files, written, out_files>>
    /\ pc' = IF "parquet" \in formats THEN "parquet" ELSE "report"
    /\ UNCHANGED <<inputs, dirExists, k, dotenv, env, cutoff, time_filter, queries, df,
                   out, error, pq_raised, clock, rerun, prev>>

\* Variant: the csv file is written whatever the formats are.
export_table_csv_unasked ==
    /\ pc = "csv"
    /\ LET csv_path == <<TABLES[k].base_name, "csv">> IN
        /\ files' = [files EXCEPT ![csv_path] = to_csv(queries[Len(queries)], df)]
        /\ written' = Append(written, csv_path)
        /\ out_files' = Append(out_files, csv_path)
    /\ pc' = IF "parquet" \in formats THEN "parquet" ELSE "report"
    /\ UNCHANGED <<inputs, dirExists, k, dotenv, env, cutoff, time_filter, queries, df,
                   out, error, pq_raised, clock, rerun, prev>>

\* export_table lines 61-64.
export_table_csv ==
    /\ pc = "csv"
    /\ IF "csv" \in formats
       THEN LET csv_path == <<TABLES[k].base_name, "csv">> IN
            /\ files' = [files EXCEPT ![csv_path] = to_csv(queries[Len(queries)], df)]
            /\ written' = Append(written, csv_path)
            /\ out_files' = Append(out_files, csv_path)
       ELSE UNCHANGED <<files, written, out_files>>
    /\ pc' = IF "parquet" \in formats THEN "parquet" ELSE "report"
    /\ UNCHANGED <<inputs, dirExists, k, dotenv, env, cutoff, time_filter, queries, df,
                   out, error, pq_raised, clock, rerun, prev>>

\* export_table lines 65-69, to_parquet returning.
export_table_parquet ==
    /\ pc = "parquet"
    /\ pyarrow
    /\ LET pq_path == <<TABLES[k].base_name, "parquet">> IN
        /\ files' = [files EXCEPT ![pq_path] = to_parquet(queries[Len(queries)], df)]
        /\ written' = Append(written, pq_path)
        /\ out_files' = Append(out_files, pq_path)
    /\ pc' = "report"
    /\ UNCHANGED <<inputs, dirExists, k, dotenv, env, cutoff, time_filter, queries, df,
                   out, error, pq_raised, clock, rerun, prev>>

Warning(i) == [line |-> "Warning", base_name |-> TABLES[i].base_name]

\* Variant: the exception of to_parquet is not caught.
export_table_parquet_fails_uncaught ==
    /\ pc = "parquet"
    /\ \/ /\ ~pyarrow
          /\ UNCHANGED pq_raised
       \/ /\ pyarrow
          /\ pq_raised < MaxPqFail
          /\ pq_raised' = pq_raised + 1
    /\ pc' = "crashed"
    /\ error' = "ParquetError"
    /\ UNCHANGED <<inputs, dirExists, files, k, dotenv, env, cutoff, time_filter, queries,
                   df, out_files, written, out, clock, rerun, prev>>

\* export_table lines 66-71, to_parquet raising before anything is written:
\* always when no engine can be imported, now and then when one can.
export_table_parquet_fails ==
    /\ pc = "parquet"
    /\ \/ /\ ~pyarrow
          /\ UNCHANGED pq_raised
       \/ /\ pyarrow
          /\ pq_raised < MaxPqFail
          /\ pq_raised' = pq_raised + 1
    /\ UNCHANGED files
    /\ out' = Append(out, Warning(k))
    /\ pc' = "report"
    /\ UNCHANGED <<inputs, dirExists, k, dotenv, env, cutoff, time_filter, queries, df,
                   out_files, written, error, clock, rerun, prev>>

Exported(i, n, fs) ==
    [line |-> "exported", base_name |-> TABLES[i].base_name, rows |-> n, files |-> fs]

\* export_table lines 72-73 and the return to main.
export_table_report ==
    /\ pc = "report"
    /\ out' = Append(out, Exported(k, Len(df), out_files))
    /\ IF k < NTables
       THEN k' = k + 1 /\ pc' = "read"
       ELSE k' = k /\ pc' = "complete"
    /\ UNCHANGED <<inputs, dirExists, files, dotenv, env, cutoff, time_filter, queries,
                   df, out_files, written, error, pq_raised, clock, rerun, prev>>

Completed == [line |-> "Export completed"]

\* main line 109.
main_complete ==
    /\ pc = "complete"
    /\ out' = Append(out, Completed)
    /\ pc' = "done"
    /\ UNCHANGED <<inputs, dirExists, files, k, locals, written, error, pq_raised,
                   clock, rerun, prev>>

Next ==
    \/ main_mkdir
    \/ make_engine_from_env
    \/ main_time_filter
    \/ export_table_read
    \/ export_table_read_fails
    \/ export_table_csv
    \/ export_table_parquet
    \/ export_table_parquet_fails
    \/ export_table_report
    \/ main_complete

Spec == Init /\ [][Next]_vars

\* ---------------------------------------------------------------- re-run
NextDay(c) == DT(c.day + 1, c.sec, c.usec)

\* The script is started again with the same arguments once a run has
\* completed: the disk and the database are as they were left, the wall
\* clock has moved on, and main() starts over.
Rerun ==
    /\ pc = "done"
    /\ ~rerun
    /\ rerun' = TRUE
    /\ prev' = <<[files |-> files, out |-> out]>>
    /\ clock' \in {clock, NextDay(clock)}
    /\ pc' = "mkdir"
    /\ k' = 1
    /\ dotenv' = <<>>
    /\ env' = NoPath
    /\ cutoff' = <<>>
    /\ time_filter' = <<>>
    /\ queries' = <<>>
    /\ df' = <<>>
    /\ out_files' = <<>>
    /\ written' = <<>>
    /\ out' = <<>>
    /\ UNCHANGED <<inputs, dirExists, files, error, pq_raised>>

\* The re-run is explored from the common layout (backend/.env present),
\* with the recency filter unset or set to one day.
InitRerun ==
    /\ Init
    /\ envExists = {ENV_PATHS[1]}
    /\ since_days \in {<<>>, <<1>>}

NextRerun == Next \/ Rerun

SpecRerun == InitRerun /\ [][NextRerun]_vars

\* ------------------------------------------------------------ properties
Range(q) == {q[i] : i \in 1..Len(q)}
Table(i) == TABLES[i].base_name
Warnings(o, t) == {j \in 1..Len(o) : o[j].line = "Warning" /\ o[j].base_name = t}
NoWarning(o) == \A j \in 1..Len(o) : o[j].line # "Warning"
DiskEmpty == \A f \in FileNames : files[f] = Absent
\* The data rows of a csv file: its lines but the header.
DataRows(content) == SubSeq(content.lines, 2, Len(content.lines))

\* C1: when none of the three environment files exists, the run ends with
\* the RuntimeError of make_engine_from_env before any query: no
\* export_table call is made and no table file is written.
C1_NoEnvFailsBeforeAnyQuery ==
    envExists = {} =>
        /\ pc \in {"mkdir", "engine", "crashed"}
        /\ pc = "crashed" => error = "RuntimeError"
        /\ queries = <<>>
        /\ out = <<>>
        /\ written = <<>>
        /\ DiskEmpty

C1_Witness == envExists = {} /\ pc = "crashed" /\ error = "RuntimeError" /\ db["users"] # <<>>

\* C2: a failing parquet serialization never ends the run, and a completed
\* run has produced every requested csv file, printed exactly one warning
\* for each table whose parquet file was skipped and none for the others,
\* and lists no parquet file as exported for the skipped tables.
C2_ParquetFailureIsTolerated ==
    /\ pc = "crashed" => error \in {"RuntimeError", "OverflowError", "DatabaseError"}
    /\ pc = "done" =>
        /\ out[Len(out)] = Completed
        /\ \A i \in 1..NTables :
            LET skipped == "parquet" \in formats /\ <<Table(i), "parquet">> \notin Range(written) IN
            /\ "csv" \in formats =>
                   <<Table(i), "csv">> \in Range(written) /\ files[<<Table(i), "csv">>].kind = "csv"
            /\ Cardinality(Warnings(out, Table(i))) = IF skipped THEN 1 ELSE 0
            /\ \A j \in 1..Len(out) :
                   out[j].line = "exported" /\ out[j].base_name = Table(i) /\ skipped
                       => <<Table(i), "parquet">> \notin Range(out[j].files)

C2_Witness ==
    /\ pc = "done"
    /\ formats = Exts
    /\ \E i, j \in 1..NTables :
        /\ Warnings(out, Table(i)) # {}
        /\ Warnings(out, Table(j)) = {}

C5_DatabaseErrorIsFatal ==
    /\ [](error = "DatabaseError" =>
            /\ pc = "crashed"
            /\ Len(queries) = k
            /\ \A f \in Range(written) : \E i \in 1..(k - 1) : f[1] = Table(i)
            /\ \A i \in k..NTables : \A e \in Exts : files[<<Table(i), e>>] = Absent
            /\ \A i \in 1..(k - 1) :
                "csv" \in formats => files[<<Table(i), "csv">>].kind = "csv"
            /\ \A f \in Range(written) : files[f] # Absent
            /\ Completed \notin Range(out))
    /\ [][error # "DatabaseError"]_vars

C5_Witness ==
    /\ pc = "crashed"
    /\ error = "DatabaseError"
    /\ k = 3
    /\ Len(written) = 4

\* C6 as stated: after a second completed run with the same arguments
\* against the unchanged database, the files and their contents equal those
\* after the first run.
C6_Original ==
    /\ pc # "mkdir" => dirExists
    /\ rerun /\ pc = "done" => files = prev[1].files

\* C6 amended: the output directory is created if absent, a re-run fails
\* only as a first run can, and after a second completed run with the same
\* arguments, --since-days unset, against the unchanged database, with no
\* parquet serialization failure in either run, the files and their
\* contents equal those after the first run.
C6_RerunOverwritesIdempotently ==
    /\ pc # "mkdir" => dirExists
    /\ rerun /\ pc = "crashed" => error \in {"DatabaseError", "OverflowError"}
    /\ rerun /\ pc = "done" /\ since_days = <<>> /\ NoWarning(out) /\ NoWarning(prev[1].out)
           => files = prev[1].files

C6_Witness ==
    /\ rerun
    /\ pc = "done"
    /\ since_days = <<>>
    /\ formats = Exts
    /\ NoWarning(out)
    /\ NoWarning(prev[1].out)
    /\ \E t \in TableNames : db[t] # <<>>
    /\ ~DiskEmpty

\* C7: with no recency filter, each exported csv file holds as many data
\* rows as the source table, and the row count export_table reports is that
\* number.
C7_RowCountsMatchSource ==
    since_days = <<>> =>
        \A j \in 1..Len(out) :
            out[j].line = "exported" =>
                /\ out[j].rows = Len(db[out[j].base_name])
                /\ "csv" \in formats =>
                       Len(files[<<out[j].base_name, "csv">>].lines) - 1 = Len(db[out[j].base_name])

C7_Witness ==
    /\ pc = "done"
    /\ since_days = <<>>
    /\ "csv" \in formats
    /\ db["click_logs"] # <<>>
    /\ Len(files[<<"click_logs", "csv">>].lines) = 1 + Len(db["click_logs"])

\* C8: once find_and_load_env has run, the one file loaded is the first
\* existing one in the order backend/.env, .env, ../backend/.env, and it is
\* what is returned; when none exists nothing is loaded and None is
\* returned.
C8_FirstExistingEnvWins ==
    pc \notin {"mkdir", "engine"} =>
        LET first == IF "backend/.env" \in envExists THEN <<"backend/.env">>
                     ELSE IF ".env" \in envExists THEN <<".env">>
                     ELSE IF "../backend/.env" \in envExists THEN <<"../backend/.env">>
                     ELSE <<>> IN
        /\ dotenv = first
        /\ env = IF first = <<>> THEN NoPath ELSE first[1]

C8_Witness ==
    /\ pc = "filter"
    /\ envExists = {".env", "../backend/.env"}
    /\ dotenv = <<".env">>

\* C9: after a run that completes with no parquet failure, the files
\* written are exactly one per requested format per table, each once, and
\* within a table the csv file is written before the parquet file.
C9_WrittenFilesAreTheRequestedOnes ==
    pc = "done" /\ NoWarning(out) =>
        /\ Range(written) = TableNames \X formats
        /\ Len(written) = Cardinality(TableNames \X formats)
        /\ \A f \in FileNames : files[f] # Absent <=> f \in TableNames \X formats
        /\ \A i, j \in 1..Len(written) :
            written[i][1] = written[j][1] /\ written[i][2] = "csv" /\ written[j][2] = "parquet"
                => i < j

C9_Witness ==
    /\ pc = "done"
    /\ NoWarning(out)
    /\ formats = {"parquet"}
    /\ Len(written) = NTables

\* C10: the output directory is created before the environment file is
\* looked for, so a run that fails for want of an environment file leaves
\* the directory in place, with no table file written into it.
C10_DirectoryCreatedBeforeEnvLookup ==
    /\ pc = "engine" => dirExists /\ dotenv = <<>> /\ env = NoPath
    /\ error = "RuntimeError" => dirExists /\ written = <<>> /\ DiskEmpty

C10_Witness == error = "RuntimeError" /\ dirExists /\ formats = {"csv"}

====
